---- MODULE Spec2Model ----
(***************************************************************************)
(* The route layer of the microblog (app/main/routes.py) over the store    *)
(* it commits to: the user table's last_seen column, the post table and    *)
(* the followers association table of migration c8a885bf2dff.              *)
(*                                                                         *)
(* Every request is handled by its own worker with its own db.session; a   *)
(* request runs before_request, then its view function, and each           *)
(* db.session.commit() is one transaction of the store.  Requests of       *)
(* different workers interleave between their store accesses.              *)
(*                                                                         *)
(* edit_profile and translate_text touch neither the posts nor the follow  *)
(* graph and are left out.  The model classes (User.follow, User.unfollow, *)
(* User.is_following, User.followed_posts) are taken from the design       *)
(* document, sections 4.1 to 4.3; the followers table has the columns of   *)
(* the migration, which declares no key and no uniqueness constraint, so   *)
(* it is a bag of rows.                                                    *)
(***************************************************************************)
EXTENDS Integers, Sequences, FiniteSets, TLC

\* Bounds of the model.
NumUsers == 2
NumReqs == 2
MaxPosts == 2
MaxTime == 1
MaxPerPage == 2

Users == 1..NumUsers
Reqs == 1..NumReqs

\* User.query.filter_by(username=...).first() of an unknown username, and the
\* anonymous current_user.
None == 0

Pairs == Users \X Users

Min(a, b) == IF a < b THEN a ELSE b

VARIABLES
    followers,       \* the followers table: number of rows per (follower_id, followed_id)
    posts,           \* the post table in insert order; a post's id is its position
    last_seen,       \* user.last_seen
    now,             \* datetime.utcnow()
    posts_per_page,  \* current_app.config['POSTS_PER_PAGE']
    req              \* the requests in flight, one per worker

vars == <<followers, posts, last_seen, now, posts_per_page, req>>

----------------------------------------------------------------------------
\* request.args.get('page', 1, type=int)

DigitChars == <<"0", "1", "2", "3", "4", "5", "6", "7", "8", "9">>

IsDigit(c) == \E d \in 1..Len(DigitChars) : DigitChars[d] = c

DigitVal(c) == (CHOOSE d \in 1..Len(DigitChars) : DigitChars[d] = c) - 1

RECURSIVE DigitsVal(_)
DigitsVal(s) ==
    IF s = <<>> THEN 0
    ELSE DigitsVal(SubSeq(s, 1, Len(s) - 1)) * 10 + DigitVal(s[Len(s)])

AllDigits(s) == Len(s) > 0 /\ \A i \in 1..Len(s) : IsDigit(s[i])

\* int(text): an optional sign followed by decimal digits, ValueError otherwise.
IntOk(s) ==
    IF s # <<>> /\ s[1] \in {"-", "+"} THEN AllDigits(Tail(s)) ELSE AllDigits(s)

IntOf(s) ==
    IF s[1] = "-" THEN 0 - DigitsVal(Tail(s))
    ELSE IF s[1] = "+" THEN DigitsVal(Tail(s))
    ELSE DigitsVal(s)

\* The query string's page argument: absent, or its text.
NoArg == [present |-> FALSE, text |-> <<>>]

Arg(s) == [present |-> TRUE, text |-> s]

PageArgs ==
    {NoArg, Arg(<<>>), Arg(<<"x">>), Arg(<<"0">>), Arg(<<"-", "1">>),
     Arg(<<"1">>), Arg(<<"2">>), Arg(<<"3">>)}

args_get_page(arg) ==
    IF arg.present /\ IntOk(arg.text) THEN IntOf(arg.text) ELSE 1

----------------------------------------------------------------------------
\* guess_language(form.post.data) and the language stored with the post.

DetectorResults == {"UNKNOWN", "en", "pt_BR", "zh-Hant"}

\* The guard written with >= : a five-character code is dropped too.
normalize_language_ge(language) ==
    IF language = "UNKNOWN" \/ Len(language) >= 5 THEN "" ELSE language

normalize_language(language) ==
    IF language = "UNKNOWN" \/ Len(language) > 5 THEN "" ELSE language

----------------------------------------------------------------------------
\* The store as the model classes read it.

is_following(a, b) == followers[<<a, b>>] > 0

followed_ids(u) == {u} \cup {b \in Users : is_following(u, b)}

\* ORDER BY timestamp DESC: the store returns the selected rows in some order
\* of non-increasing timestamp; the order of rows of equal timestamp is the
\* store's choice at each evaluation.
order_by_timestamp_desc(ids) ==
    {q \in [1..Cardinality(ids) -> ids] :
        /\ \A i, j \in DOMAIN q : i # j => q[i] # q[j]
        /\ \A i, j \in DOMAIN q : i < j => posts[q[i]].timestamp >= posts[q[j]].timestamp}

followed_posts(u) ==
    order_by_timestamp_desc({i \in DOMAIN posts : posts[i].author \in followed_ids(u)})

user_posts(u) ==
    order_by_timestamp_desc({i \in DOMAIN posts : posts[i].author = u})

all_posts == order_by_timestamp_desc(DOMAIN posts)

\* query.paginate(page, per_page, False): LIMIT per_page OFFSET (page-1)*per_page
\* of the ordered rows q; with error_out False a page below 1 is served as page 1
\* and a page past the end is empty.
paginate(q, page, per_page) ==
    LET p      == IF page < 1 THEN 1 ELSE page
        offset == (p - 1) * per_page
        total  == Len(q)
        pages  == (total + per_page - 1) \div per_page
    IN  [items    |-> SubSeq(q, offset + 1, Min(offset + per_page, total)),
         page     |-> p,
         has_next |-> p < pages,
         has_prev |-> p > 1,
         next_num |-> p + 1,
         prev_num |-> p - 1]

----------------------------------------------------------------------------
\* A worker's db.session: the changes made and not yet committed.

EmptySession == [seen |-> {}, post |-> <<>>, ins |-> {}, del |-> {}]

NoResponse ==
    [code |-> "none", to |-> "none", username |-> None, flash |-> "",
     items |-> <<>>, next_url |-> None, prev_url |-> None]

NoSnapshot == [posts |-> <<>>, followers |-> [p \in Pairs |-> 0]]

Idle ==
    [pc |-> "idle", kind |-> "none", user |-> None, target |-> None,
     page_arg |-> NoArg, detected |-> "", page |-> 1, session |-> EmptySession,
     snapshot |-> NoSnapshot, resp |-> NoResponse]

Init ==
    /\ followers = [p \in Pairs |-> 0]
    /\ posts = <<>>
    /\ last_seen = [u \in Users |-> 0]
    /\ now = 0
    /\ posts_per_page \in 1..MaxPerPage
    /\ req = [r \in Reqs |-> Idle]

----------------------------------------------------------------------------
\* The routes.  Kinds of request: "post" is a POST of a valid PostForm to
\* /index, "index" any other request of /index, the others are the GET routes
\* of their name.

Kinds == {"post", "index", "user", "explore", "follow", "unfollow"}

FeedKinds == {"index", "user", "explore"}

TargetKinds == {"user", "follow", "unfollow"}

\* Posts stored or about to be: the post table is bounded by MaxPosts.
PostsInFlight == Cardinality({r \in Reqs : req[r].kind = "post"})

\* A request reaches a free worker: one of the routes in kinds, by an anonymous
\* or a logged-in user, with a page argument among args and, for a post, a body
\* for which the language detector answers one of dets.  The username of the
\* URL is modelled by the user it names (None when it names nobody).
Arrive(r, kinds, args, dets) ==
    /\ req[r].pc = "idle"
    /\ \E k \in kinds :
       \E u \in Users \cup {None} :
       \E t \in (IF k \in TargetKinds /\ u # None THEN Users \cup {None} ELSE {None}) :
       \E a \in (IF k \in FeedKinds /\ u # None THEN args ELSE {NoArg}) :
       \E d \in (IF k = "post" /\ u # None THEN dets ELSE {""}) :
          /\ k = "post" => Len(posts) + PostsInFlight < MaxPosts
          /\ req' = [req EXCEPT ![r] =
                       [Idle EXCEPT !.pc = "before", !.kind = k, !.user = u,
                                    !.target = t, !.page_arg = a, !.detected = d]]
    /\ UNCHANGED <<followers, posts, last_seen, now, posts_per_page>>

\* The same for a server run with a single worker, which takes the next request
\* when it has answered the one before.
ArriveAlone(r, kinds, args, dets) ==
    /\ \A o \in Reqs : r <= o
    /\ Arrive(r, kinds, args, dets)

\* db.session.commit() of the session s of user u: one transaction.  A post
\* gets its timestamp when it is inserted; a removed edge loses all its rows.
commit(u, s) ==
    /\ last_seen' = IF s.seen = {} THEN last_seen
                    ELSE [last_seen EXCEPT ![u] = CHOOSE t \in s.seen : TRUE]
    /\ posts' = posts \o [i \in 1..Len(s.post) |->
                            [author |-> s.post[i].author, timestamp |-> now,
                             language |-> s.post[i].language]]
    /\ followers' = [p \in Pairs |->
                        IF p \in s.del THEN 0
                        ELSE IF p \in s.ins THEN followers[p] + 1
                        ELSE followers[p]]

\* before_request without its commit: last_seen stays in the session until the
\* view commits.
BeforeRequest_NoCommit(r) ==
    /\ req[r].pc = "before"
    /\ req' = [req EXCEPT ![r].pc = "view",
                          ![r].session.seen = IF req[r].user # None THEN {now} ELSE {}]
    /\ UNCHANGED <<followers, posts, last_seen, now, posts_per_page>>

BeforeRequest(r) ==
    /\ req[r].pc = "before"
    /\ IF req[r].user # None
       THEN commit(req[r].user, [req[r].session EXCEPT !.seen = {now}])
       ELSE UNCHANGED <<followers, posts, last_seen>>
    /\ req' = [req EXCEPT ![r].pc = "view"]
    /\ UNCHANGED <<now, posts_per_page>>

\* @login_required: an anonymous request is redirected to the login page.
LoginRequired(r) ==
    /\ req[r].pc = "view"
    /\ req[r].user = None
    /\ req' = [req EXCEPT ![r].pc = "done",
                          ![r].resp = [NoResponse EXCEPT !.code = "redirect", !.to = "login"]]
    /\ UNCHANGED <<followers, posts, last_seen, now, posts_per_page>>

\* index(), the form submitted: the post is added to the session.
IndexPost(r) ==
    /\ req[r].pc = "view"
    /\ req[r].user # None
    /\ req[r].kind = "post"
    /\ LET language == normalize_language(req[r].detected)
           post == [author |-> req[r].user, language |-> language]
       IN  req' = [req EXCEPT ![r].pc = "commit",
                              ![r].session.post = Append(@, post)]
    /\ UNCHANGED <<followers, posts, last_seen, now, posts_per_page>>

\* render_feed with paginate's first two arguments exchanged.
render_feed_swapped(r, query, template) ==
    LET page == args_get_page(req[r].page_arg)
    IN  \E q \in query :
          LET p == paginate(q, posts_per_page, IF page < 1 THEN 1 ELSE page)
          IN  req' = [req EXCEPT
                  ![r].pc = "done",
                  ![r].page = page,
                  ![r].snapshot = [posts |-> posts, followers |-> followers],
                  ![r].resp = [NoResponse EXCEPT
                      !.code = "render", !.to = template, !.items = p.items,
                      !.next_url = IF p.has_next THEN p.next_num ELSE None,
                      !.prev_url = IF p.has_prev THEN p.prev_num ELSE None]]

\* The tail shared by the three feed routes: page from the query string, the
\* query paginated, next_url and prev_url, render_template.
render_feed(r, query, template) ==
    LET page == args_get_page(req[r].page_arg)
    IN  \E q \in query :
          LET p == paginate(q, page, posts_per_page)
          IN  req' = [req EXCEPT
                  ![r].pc = "done",
                  ![r].page = page,
                  ![r].snapshot = [posts |-> posts, followers |-> followers],
                  ![r].resp = [NoResponse EXCEPT
                      !.code = "render", !.to = template, !.items = p.items,
                      !.next_url = IF p.has_next THEN p.next_num ELSE None,
                      !.prev_url = IF p.has_prev THEN p.prev_num ELSE None]]

\* index() paginating every post, as explore() does.
IndexGet_AllPosts(r) ==
    /\ req[r].pc = "view"
    /\ req[r].user # None
    /\ req[r].kind = "index"
    /\ render_feed(r, all_posts, "index.html")
    /\ UNCHANGED <<followers, posts, last_seen, now, posts_per_page>>

IndexGet(r) ==
    /\ req[r].pc = "view"
    /\ req[r].user # None
    /\ req[r].kind = "index"
    /\ render_feed(r, followed_posts(req[r].user), "index.html")
    /\ UNCHANGED <<followers, posts, last_seen, now, posts_per_page>>

UserView(r) ==
    /\ req[r].pc = "view"
    /\ req[r].user # None
    /\ req[r].kind = "user"
    /\ IF req[r].target = None
       THEN req' = [req EXCEPT ![r].pc = "done",
                               ![r].resp = [NoResponse EXCEPT !.code = "404"]]
       ELSE render_feed(r, user_posts(req[r].target), "user.html")
    /\ UNCHANGED <<followers, posts, last_seen, now, posts_per_page>>

Explore(r) ==
    /\ req[r].pc = "view"
    /\ req[r].user # None
    /\ req[r].kind = "explore"
    /\ render_feed(r, all_posts, "index.html")
    /\ UNCHANGED <<followers, posts, last_seen, now, posts_per_page>>

\* User.follow(user) and User.unfollow(user) on the session s of user a.
follow(s, a, b) ==
    IF is_following(a, b) THEN s ELSE [s EXCEPT !.ins = @ \cup {<<a, b>>}]

unfollow(s, a, b) ==
    IF is_following(a, b) THEN [s EXCEPT !.del = @ \cup {<<a, b>>}] ELSE s

redirect(to, message) ==
    [NoResponse EXCEPT !.code = "redirect", !.to = to, !.flash = message]

\* redirect(url_for('main.user', username=username))
redirect_user(username, message) ==
    [redirect("main.user", message) EXCEPT !.username = username]

\* follow(username) without the test user == current_user.
FollowView_NoSelfCheck(r) ==
    /\ req[r].pc = "view"
    /\ req[r].user # None
    /\ req[r].kind = "follow"
    /\ IF req[r].target = None
       THEN req' = [req EXCEPT ![r].pc = "done",
                               ![r].resp = redirect("main.index", "User not found.")]
       ELSE req' = [req EXCEPT ![r].pc = "commit",
                               ![r].session = follow(@, req[r].user, req[r].target)]
    /\ UNCHANGED <<followers, posts, last_seen, now, posts_per_page>>

\* follow(username) appending to current_user.followed itself instead of
\* calling current_user.follow(user).
FollowView_Append(r) ==
    /\ req[r].pc = "view"
    /\ req[r].user # None
    /\ req[r].kind = "follow"
    /\ IF req[r].target = None
       THEN req' = [req EXCEPT ![r].pc = "done",
                               ![r].resp = redirect("main.index", "User not found.")]
       ELSE IF req[r].target = req[r].user
       THEN req' = [req EXCEPT ![r].pc = "done",
                               ![r].resp = redirect_user(req[r].target, "You cannot follow yourself!")]
       ELSE req' = [req EXCEPT ![r].pc = "commit",
                               ![r].session.ins = @ \cup {<<req[r].user, req[r].target>>}]
    /\ UNCHANGED <<followers, posts, last_seen, now, posts_per_page>>

\* follow(username) up to current_user.follow(user).
FollowView(r) ==
    /\ req[r].pc = "view"
    /\ req[r].user # None
    /\ req[r].kind = "follow"
    /\ IF req[r].target = None
       THEN req' = [req EXCEPT ![r].pc = "done",
                               ![r].resp = redirect("main.index", "User not found.")]
       ELSE IF req[r].target = req[r].user
       THEN req' = [req EXCEPT ![r].pc = "done",
                               ![r].resp = redirect_user(req[r].target, "You cannot follow yourself!")]
       ELSE req' = [req EXCEPT ![r].pc = "commit",
                               ![r].session = follow(@, req[r].user, req[r].target)]
    /\ UNCHANGED <<followers, posts, last_seen, now, posts_per_page>>

\* unfollow(username) without the test user == current_user.
UnfollowView_NoSelfCheck(r) ==
    /\ req[r].pc = "view"
    /\ req[r].user # None
    /\ req[r].kind = "unfollow"
    /\ IF req[r].target = None
       THEN req' = [req EXCEPT ![r].pc = "done",
                               ![r].resp = redirect("main.index", "User not found.")]
       ELSE req' = [req EXCEPT ![r].pc = "commit",
                               ![r].session = unfollow(@, req[r].user, req[r].target)]
    /\ UNCHANGED <<followers, posts, last_seen, now, posts_per_page>>

\* unfollow(username) calling current_user.follow(user), as the view it was
\* copied from does.
UnfollowView_CallsFollow(r) ==
    /\ req[r].pc = "view"
    /\ req[r].user # None
    /\ req[r].kind = "unfollow"
    /\ IF req[r].target = None
       THEN req' = [req EXCEPT ![r].pc = "done",
                               ![r].resp = redirect("main.index", "User not found.")]
       ELSE IF req[r].target = req[r].user
       THEN req' = [req EXCEPT ![r].pc = "done",
                               ![r].resp = redirect_user(req[r].target, "You cannot unfollow yourself!")]
       ELSE req' = [req EXCEPT ![r].pc = "commit",
                               ![r].session = follow(@, req[r].user, req[r].target)]
    /\ UNCHANGED <<followers, posts, last_seen, now, posts_per_page>>

\* unfollow(username) up to current_user.unfollow(user).
UnfollowView(r) ==
    /\ req[r].pc = "view"
    /\ req[r].user # None
    /\ req[r].kind = "unfollow"
    /\ IF req[r].target = None
       THEN req' = [req EXCEPT ![r].pc = "done",
                               ![r].resp = redirect("main.index", "User not found.")]
       ELSE IF req[r].target = req[r].user
       THEN req' = [req EXCEPT ![r].pc = "done",
                               ![r].resp = redirect_user(req[r].target, "You cannot unfollow yourself!")]
       ELSE req' = [req EXCEPT ![r].pc = "commit",
                               ![r].session = unfollow(@, req[r].user, req[r].target)]
    /\ UNCHANGED <<followers, posts, last_seen, now, posts_per_page>>

\* The view's db.session.commit() and the redirect that follows it.
Commit(r) ==
    /\ req[r].pc = "commit"
    /\ commit(req[r].user, req[r].session)
    /\ req' = [req EXCEPT
           ![r].pc = "done",
           ![r].session = EmptySession,
           ![r].resp = IF req[r].kind = "post"
                       THEN redirect("main.index", "Your post is now live!")
                       ELSE IF req[r].kind = "follow"
                       THEN redirect_user(req[r].target, "You are following!")
                       ELSE redirect_user(req[r].target, "You are not following.")]
    /\ UNCHANGED <<now, posts_per_page>>

\* The view's commit raises: the session is rolled back when the request is
\* torn down and the request is answered with an error.
Fail(r) ==
    /\ req[r].pc = "commit"
    /\ req' = [req EXCEPT ![r].pc = "done",
                          ![r].session = EmptySession,
                          ![r].resp = [NoResponse EXCEPT !.code = "500"]]
    /\ UNCHANGED <<followers, posts, last_seen, now, posts_per_page>>

\* The response is sent and the worker is free again.
Respond(r) ==
    /\ req[r].pc = "done"
    /\ req' = [req EXCEPT ![r] = Idle]
    /\ UNCHANGED <<followers, posts, last_seen, now, posts_per_page>>

\* Time passes.
Tick ==
    /\ now < MaxTime
    /\ now' = now + 1
    /\ UNCHANGED <<followers, posts, last_seen, posts_per_page, req>>

\* Concurrent workers serving the routes that change the store.
Next ==
    \/ \E r \in Reqs : Arrive(r, {"post", "follow", "unfollow"}, {NoArg}, {"en"})
    \/ \E r \in Reqs : BeforeRequest(r)
    \/ \E r \in Reqs : LoginRequired(r)
    \/ \E r \in Reqs : IndexPost(r)
    \/ \E r \in Reqs : FollowView(r)
    \/ \E r \in Reqs : UnfollowView(r)
    \/ \E r \in Reqs : Commit(r)
    \/ \E r \in Reqs : Fail(r)
    \/ \E r \in Reqs : Respond(r)
    \/ Tick

Spec == Init /\ [][Next]_vars

\* Every route, one request at a time.
NextSeq ==
    \/ \E r \in Reqs : ArriveAlone(r, Kinds, PageArgs, {"en"})
    \/ \E r \in Reqs : BeforeRequest(r)
    \/ \E r \in Reqs : LoginRequired(r)
    \/ \E r \in Reqs : IndexPost(r)
    \/ \E r \in Reqs : IndexGet(r)
    \/ \E r \in Reqs : UserView(r)
    \/ \E r \in Reqs : Explore(r)
    \/ \E r \in Reqs : FollowView(r)
    \/ \E r \in Reqs : UnfollowView(r)
    \/ \E r \in Reqs : Commit(r)
    \/ \E r \in Reqs : Fail(r)
    \/ \E r \in Reqs : Respond(r)
    \/ Tick

SeqSpec == Init /\ [][NextSeq]_vars

\* Following and unfollowing, one request at a time.
NextGraph ==
    \/ \E r \in Reqs : ArriveAlone(r, {"follow", "unfollow"}, {NoArg}, {"en"})
    \/ \E r \in Reqs : BeforeRequest(r)
    \/ \E r \in Reqs : LoginRequired(r)
    \/ \E r \in Reqs : FollowView(r)
    \/ \E r \in Reqs : UnfollowView(r)
    \/ \E r \in Reqs : Commit(r)
    \/ \E r \in Reqs : Fail(r)
    \/ \E r \in Reqs : Respond(r)
    \/ Tick

GraphSpec == Init /\ [][NextGraph]_vars

\* Posting with every answer of the language detector, one request at a time.
NextPost ==
    \/ \E r \in Reqs : ArriveAlone(r, {"post"}, {NoArg}, DetectorResults)
    \/ \E r \in Reqs : BeforeRequest(r)
    \/ \E r \in Reqs : LoginRequired(r)
    \/ \E r \in Reqs : IndexPost(r)
    \/ \E r \in Reqs : Commit(r)
    \/ \E r \in Reqs : Fail(r)
    \/ \E r \in Reqs : Respond(r)
    \/ Tick

PostSpec == Init /\ [][NextPost]_vars

\* Concurrent workers posting and reading the feeds.
NextFeed ==
    \/ \E r \in Reqs : Arrive(r, {"post", "index", "user", "explore"}, {NoArg}, {"en"})
    \/ \E r \in Reqs : BeforeRequest(r)
    \/ \E r \in Reqs : LoginRequired(r)
    \/ \E r \in Reqs : IndexPost(r)
    \/ \E r \in Reqs : IndexGet(r)
    \/ \E r \in Reqs : UserView(r)
    \/ \E r \in Reqs : Explore(r)
    \/ \E r \in Reqs : Commit(r)
    \/ \E r \in Reqs : Fail(r)
    \/ \E r \in Reqs : Respond(r)
    \/ Tick

FeedSpec == Init /\ [][NextFeed]_vars

----------------------------------------------------------------------------
\* What a finished feed request shows of its query: the request is answered
\* with a rendered page, and the store it read is in its snapshot.

Rendered(r) ==
    /\ req[r].pc = "done"
    /\ req[r].kind \in FeedKinds
    /\ req[r].resp.code = "render"

\* The posts the query of r selects in the store it read.
Selected(r) ==
    LET sp == req[r].snapshot.posts
        sf == req[r].snapshot.followers
    IN  {i \in DOMAIN sp :
            CASE req[r].kind = "index" ->
                    \/ sp[i].author = req[r].user
                    \/ sf[<<req[r].user, sp[i].author>>] > 0
              [] req[r].kind = "user" -> sp[i].author = req[r].target
              [] OTHER -> TRUE}

Stamp(r, i) == req[r].snapshot.posts[i].timestamp

\* The positions of the page: position g of the result set, counted from 1,
\* is on page N of size P when (N-1)*P < g <= N*P.
PageLength(T, N, P) ==
    IF (N - 1) * P >= T THEN 0 ELSE Min(P, T - (N - 1) * P)

\* C1: the home timeline of U holds exactly the posts written by U or by a
\* user U follows, newest first: every item of a page of the index route is
\* such a post, no post is shown twice, timestamps never increase down the
\* page, and the item at position g of the timeline has fewer than g selected
\* posts strictly newer than it and at least g selected posts at least as new
\* (so the pages together are the selected posts in descending timestamp
\* order, U's own posts among them and no post of a user U does not follow).
C1_HomeTimeline ==
    \A r \in Reqs :
        (Rendered(r) /\ req[r].kind = "index") =>
            LET items == req[r].resp.items
                u  == req[r].user
                sp == req[r].snapshot.posts
                sf == req[r].snapshot.followers
                E  == {i \in DOMAIN sp :
                          sp[i].author = u \/ sf[<<u, sp[i].author>>] > 0}
                N  == req[r].page
            IN  /\ \A i \in DOMAIN items : items[i] \in E
                /\ \A i, j \in DOMAIN items : i # j => items[i] # items[j]
                /\ \A i, j \in DOMAIN items :
                      i < j => sp[items[i]].timestamp >= sp[items[j]].timestamp
                /\ N >= 1 =>
                      /\ Len(items) = PageLength(Cardinality(E), N, posts_per_page)
                      /\ \A i \in DOMAIN items :
                            LET g == (N - 1) * posts_per_page + i
                                t == sp[items[i]].timestamp
                            IN  /\ Cardinality({e \in E : sp[e].timestamp > t}) < g
                                /\ Cardinality({e \in E : sp[e].timestamp >= t}) >= g

\* A page of the home timeline showing a post of the user and a post of a
\* user they follow.
C1_Witness ==
    \E r \in Reqs :
        /\ Rendered(r) /\ req[r].kind = "index"
        /\ \E i, j \in DOMAIN req[r].resp.items :
              /\ posts[req[r].resp.items[i]].author = req[r].user
              /\ posts[req[r].resp.items[j]].author # req[r].user

\* C2: the followers table never holds a row (a, a).
C2_NoSelfLoop == \A a \in Users : followers[<<a, a>>] = 0

\* A request to follow oneself has been turned away while somebody follows
\* somebody.
C2_Witness ==
    \E r \in Reqs :
        /\ req[r].pc = "done"
        /\ req[r].kind = "follow"
        /\ req[r].user # None
        /\ req[r].target = req[r].user
        /\ req[r].resp.flash = "You cannot follow yourself!"
        /\ \E p \in Pairs : followers[p] > 0

\* C3: the followers table holds at most one row for every ordered pair.
C3_AtMostOneEdge == \A p \in Pairs : followers[p] <= 1

\* A follow request of a for b is answered: its view has called
\* current_user.follow(b) and its commit is done.
FollowCommits(r) ==
    /\ req[r].pc = "commit"
    /\ req[r].kind = "follow"
    /\ req'[r].pc = "done"
    /\ req'[r].resp.code = "redirect"

\* C4: with one request at a time, the follow request of a for b leaves exactly
\* one row (a, b) and no other change, and it changes nothing when a follows b
\* already: a second follow in a row adds nothing to the first.
C4_FollowIdempotent ==
    [][\A r \in Reqs :
          FollowCommits(r) =>
              LET e == <<req[r].user, req[r].target>>
              IN  /\ followers[e] > 0 => followers' = followers
                  /\ followers[e] = 0 => followers' = [followers EXCEPT ![e] = 1]]_vars

\* The second follow in a row: a already follows b and the view has called
\* current_user.follow(b) again.
C4_Witness ==
    \E r \in Reqs :
        /\ req[r].pc = "commit"
        /\ req[r].kind = "follow"
        /\ req[r].user # req[r].target
        /\ is_following(req[r].user, req[r].target)

UnfollowCommits(r) ==
    /\ req[r].pc = "commit"
    /\ req[r].kind = "unfollow"
    /\ req'[r].pc = "done"
    /\ req'[r].resp.code = "redirect"

\* C5: with one request at a time, after the unfollow request of a for b there
\* is no row (a, b), no other pair has changed, and the table is unchanged when
\* a did not follow b.
C5_Unfollow ==
    [][\A r \in Reqs :
          UnfollowCommits(r) =>
              LET e == <<req[r].user, req[r].target>>
              IN  /\ followers' = [followers EXCEPT ![e] = 0]
                  /\ followers[e] = 0 => followers' = followers]_vars

\* An unfollow request of a for b has been answered, a does not follow b, and
\* another edge of the graph is still there.
C5_Witness ==
    \E r \in Reqs :
        /\ req[r].pc = "done"
        /\ req[r].kind = "unfollow"
        /\ req[r].resp.flash = "You are not following."
        /\ ~ is_following(req[r].user, req[r].target)
        /\ is_following(req[r].target, req[r].user)

\* C6: for a page number N >= 1 and the page size P, a feed page is the items
\* at positions (N-1)*P+1 .. N*P of the result set in one of its descending
\* timestamp orders, and is empty when (N-1)*P >= T, T the size of the result
\* set.
C6_PageSlice ==
    \A r \in Reqs :
        (Rendered(r) /\ req[r].page >= 1) =>
            LET items == req[r].resp.items
                M == Selected(r)
                T == Cardinality(M)
                N == req[r].page
                P == posts_per_page
            IN  /\ (N - 1) * P >= T => items = <<>>
                /\ \E ord \in [1..T -> M] :
                      /\ \A i, j \in 1..T : i # j => ord[i] # ord[j]
                      /\ \A i, j \in 1..T : i < j => Stamp(r, ord[i]) >= Stamp(r, ord[j])
                      /\ items = [i \in 1..PageLength(T, N, P) |-> ord[(N - 1) * P + i]]

\* A second page holding the last post of a result set of two, and a page past
\* the end that is empty.
C6_Witness ==
    \E r \in Reqs :
        /\ Rendered(r)
        /\ req[r].page = 2
        /\ posts_per_page = 1
        /\ Cardinality(Selected(r)) = 2
        /\ Len(req[r].resp.items) = 1

\* C7: the page number a feed route hands to paginate is at least 1.
C7_PagePositive ==
    \A r \in Reqs : Rendered(r) => req[r].page >= 1

PostCommits(r) ==
    /\ req[r].pc = "commit"
    /\ req[r].kind = "post"
    /\ req'[r].pc = "done"
    /\ req'[r].resp.code = "redirect"

\* C8: the post a request creates is stored with the empty language tag when
\* the detector answered "UNKNOWN" or more than 5 characters, and with the
\* detector's answer otherwise.
C8_LanguageTag ==
    [][\A r \in Reqs :
          PostCommits(r) =>
              LET d == req[r].detected
                  stored == posts'[Len(posts')].language
              IN  /\ Len(posts') = Len(posts) + 1
                  /\ (d = "UNKNOWN" \/ Len(d) >= 6) => stored = ""
                  /\ (d # "UNKNOWN" /\ Len(d) <= 5) => stored = d]_vars

\* A post of five detected characters stored with them, followed by a post
\* whose detected language of seven characters is stored empty.
C8_Witness ==
    \E r \in Reqs :
        /\ req[r].pc = "done"
        /\ req[r].kind = "post"
        /\ req[r].detected = "zh-Hant"
        /\ req[r].resp.code = "redirect"
        /\ Len(posts) = 2
        /\ posts[1].language = "pt_BR"
        /\ posts[2].language = ""

\* C9 as claimed: the last_seen update of a request that creates a post and the
\* insert of the post reach the store together or not at all, so the step of the
\* request that commits the one commits the other.
C9_OneTransaction ==
    [][\A r \in Reqs :
          (req[r].kind = "post" /\ req[r].user # None /\ req'[r] # req[r]
              /\ last_seen'[req[r].user] # last_seen[req[r].user])
              => Len(posts') = Len(posts) + 1]_vars

\* C9 as the code has it: a request changes the store in two transactions.
\* The commit of before_request applies the last_seen update alone; the commit
\* of the view applies every change of the view (the post insert, the rows
\* added or removed) together and nothing else; a view whose commit fails
\* leaves posts and followers as they were, the last_seen update staying.
C9_TwoTransactions ==
    [][/\ last_seen' # last_seen => (posts' = posts /\ followers' = followers)
       /\ \A r \in Reqs :
             (req[r].pc = "commit" /\ req'[r].pc = "done") =>
                 IF req'[r].resp.code = "redirect"
                 THEN /\ Len(posts') = Len(posts) + Len(req[r].session.post)
                      /\ \A p \in req[r].session.ins : followers'[p] = followers[p] + 1
                      /\ \A p \in req[r].session.del : followers'[p] = 0
                      /\ \A p \in Pairs \ (req[r].session.ins \cup req[r].session.del) :
                            followers'[p] = followers[p]
                      /\ last_seen' = last_seen
                 ELSE /\ posts' = posts
                      /\ followers' = followers
                      /\ last_seen' = last_seen]_vars

\* The request of a user to post has failed in the view: the user's last_seen
\* is updated and no post is stored.
C9_Witness ==
    \E r \in Reqs :
        /\ req[r].pc = "done"
        /\ req[r].kind = "post"
        /\ req[r].resp.code = "500"
        /\ last_seen[req[r].user] = now
        /\ now > 0
        /\ posts = <<>>

\* Two requests ask for the same feed.
SameQuery(r, o) ==
    /\ req[r].kind = req[o].kind
    /\ req[r].page = req[o].page
    /\ req[r].kind = "index" => req[r].user = req[o].user
    /\ req[r].kind = "user" => req[r].target = req[o].target

\* C10: two evaluations of the same feed query on the same posts and follow
\* edges return the same items in the same order.
C10_StableOrder ==
    \A r, o \in Reqs :
        (Rendered(r) /\ Rendered(o) /\ SameQuery(r, o)
            /\ req[r].snapshot = req[o].snapshot)
        => req[r].resp.items = req[o].resp.items

\* A follow or unfollow request the route turns away: its username names
\* nobody, or names the current user.
Rejected(r) ==
    /\ req[r].kind \in {"follow", "unfollow"}
    /\ req[r].user # None
    /\ req[r].target \in {None, req[r].user}

\* C11: no step of a follow or unfollow request that is turned away changes the
\* followers table or the post table; the view adds nothing to the session
\* (current_user.follow and current_user.unfollow are not called) and never
\* reaches its commit, and it answers with a redirect that carries a message:
\* to the index page when the username names nobody, to the current user's own
\* profile page when it names the current user.
C11_RejectedRequest ==
    [][\A r \in Reqs :
          (Rejected(r) /\ req'[r] # req[r]) =>
              /\ followers' = followers
              /\ posts' = posts
              /\ req'[r].session = EmptySession
              /\ req'[r].pc # "commit"
              /\ req[r].pc = "view" =>
                    /\ req'[r].pc = "done"
                    /\ req'[r].resp.code = "redirect"
                    /\ req'[r].resp.flash # ""
                    /\ IF req[r].target = None
                       THEN req'[r].resp.to = "main.index"
                       ELSE /\ req'[r].resp.to = "main.user"
                            /\ req'[r].resp.username = req[r].user]_vars

\* A request of a user to unfollow themselves has been turned away while the
\* post table holds a post and the followers table a row.
C11_Witness ==
    \E r \in Reqs :
        /\ req[r].pc = "done"
        /\ Rejected(r)
        /\ req[r].kind = "unfollow"
        /\ req[r].target = req[r].user
        /\ req[r].resp.flash = "You cannot unfollow yourself!"
        /\ posts # <<>>
        /\ \E p \in Pairs : followers[p] > 0

====
